---- MODULE Spec2Model ----
(***************************************************************************)
(* Model of scripts/analyze_document_lengths.py: the directory scan and    *)
(* classification (analyze_document_lengths), the console strategy print   *)
(* (suggest_optimization_strategies), the markdown report writer           *)
(* (generate_optimization_report) and the __main__ pipeline.               *)
(***************************************************************************)
EXTENDS Integers, Sequences, FiniteSets, TLC

VARIABLES
    pc,               \* control position of the running code
    run,              \* which invocation of the tool this is (1 or 2)
    dirExists,        \* does docs_dir exist
    dirFiles,         \* names of the entries of docs_dir
    content,          \* per .md entry: how reading it ends, and its line count
    listing,          \* entries of os.listdir(docs_dir) not yet iterated
    results,          \* the list of records
    category_counts,  \* defaultdict(int) of category -> count
    total_lines,
    total_files,
    stdout,           \* what has been printed, in order
    report,           \* the file at output_file
    prevReport,       \* the file at output_file left by the previous invocation
    error,            \* the exception that ended the run, or "none"
    line_count,       \* loop locals of the scan: the file's line count,
    category,         \*   its category (None when no range matches)
    priority          \*   and its priority

vars == <<pc, run, dirExists, dirFiles, content, listing, results,
          category_counts, total_lines, total_files, stdout, report,
          prevReport, error, line_count, category, priority>>

---------------------------------------------------------------------------
(* Bounds *)

\* most entries a directory holds
MaxEntries == 3

\* largest line count classified on its own
MaxLines == 620

\* line counts of the files of a scanned directory
LineCounts == {0, 50, 300, 350, 400, 450, 500, 600}

\* entry names; EndsWithMd tabulates filename.endswith('.md') over them
Names == {"a.md", "b.md", "c.md", "notes.txt"}

---------------------------------------------------------------------------
(* Classification: lines 16-29 and 51-75 *)

length_categories ==
    << [cat |-> "short",     min |-> 1,   max |-> 100, inf |-> FALSE],
       [cat |-> "medium",    min |-> 101, max |-> 300, inf |-> FALSE],
       [cat |-> "long",      min |-> 301, max |-> 500, inf |-> FALSE],
       [cat |-> "very_long", min |-> 501, max |-> 0,   inf |-> TRUE] >>

Categories == {length_categories[i].cat : i \in DOMAIN length_categories}

optimization_recommendations ==
    [c \in Categories |->
        CASE c = "short"     -> "No optimization needed"
          [] c = "medium"    -> "Light optimization recommended"
          [] c = "long"      -> "Moderate optimization recommended"
          [] c = "very_long" -> "Significant optimization needed"]

\* min_lines <= line_count <= max_lines, max_lines possibly float('inf')
InRange(n, rng) == rng.min <= n /\ (rng.inf \/ n <= rng.max)

RECURSIVE FirstMatch(_, _)
FirstMatch(n, i) ==
    IF i > Len(length_categories) THEN "None"
    ELSE IF InRange(n, length_categories[i]) THEN length_categories[i].cat
    ELSE FirstMatch(n, i + 1)

\* the for/break loop over length_categories.items(); category stays None
\* when no range matches
CategoryOf(n) == FirstMatch(n, 1)

PriorityGe(n) ==
    IF n >= 500 THEN "HIGH"
    ELSE IF n >= 400 THEN "MEDIUM"
    ELSE IF n >= 300 THEN "LOW"
    ELSE "NONE"

PriorityOf(n) ==
    IF n > 500 THEN "HIGH"
    ELSE IF n > 400 THEN "MEDIUM"
    ELSE IF n > 300 THEN "LOW"
    ELSE "NONE"

\* optimization_recommendations[category] raises KeyError for None
LookupFails(cat) == cat \notin DOMAIN optimization_recommendations

MakeRecord(name, n) ==
    [filename |-> name, line_count |-> n, category |-> CategoryOf(n),
     recommendation |-> optimization_recommendations[CategoryOf(n)],
     priority |-> PriorityOf(n)]

\* category.upper().replace('_', ' ')
DisplayCategory(cat) ==
    CASE cat = "short"     -> "SHORT"
      [] cat = "medium"    -> "MEDIUM"
      [] cat = "long"      -> "LONG"
      [] cat = "very_long" -> "VERY LONG"

---------------------------------------------------------------------------
(* Output text.  A Block is one printed or written item: what it is, and   *)
(* the values formatted into it.                                           *)

Block(kind, name, num, aux, cat, prio, text) ==
    [kind |-> kind, name |-> name, num |-> num, aux |-> aux, cat |-> cat,
     prio |-> prio, text |-> text]

Line(kind) == Block(kind, "", 0, 0, "", "", "")

Number(kind, n) == Block(kind, "", n, 0, "", "", "")

\* f"{num / den:.1f}", in tenths: the quotient rounded to one decimal,
\* a tie going to the even digit (den > 0)
Format1f(num, den) ==
    LET q == (10 * num) \div den
        r == (10 * num) % den
    IN  IF 2 * r > den THEN q + 1
        ELSE IF 2 * r < den THEN q
        ELSE IF q % 2 = 0 THEN q ELSE q + 1

RECURSIVE SumLines(_)
\* sum(r['line_count'] for r in results)
SumLines(rs) ==
    IF rs = <<>> THEN 0 ELSE rs[1].line_count + SumLines(Tail(rs))

RECURSIVE Filter(_, _)
\* [r for r in rs if r['priority'] in prios]
Filter(rs, prios) ==
    IF rs = <<>> THEN <<>>
    ELSE IF rs[1].priority \in prios
         THEN <<rs[1]>> \o Filter(Tail(rs), prios)
         ELSE Filter(Tail(rs), prios)

\* r goes after every element whose line count is at least its own
InsertDesc(sorted, r) ==
    LET k == Cardinality({i \in DOMAIN sorted :
                              sorted[i].line_count >= r.line_count})
    IN  SubSeq(sorted, 1, k) \o <<r>> \o SubSeq(sorted, k + 1, Len(sorted))

RECURSIVE SortedStable(_)
SortedStable(rs) ==
    IF rs = <<>> THEN <<>>
    ELSE InsertDesc(SortedStable(SubSeq(rs, 1, Len(rs) - 1)), rs[Len(rs)])

Unsorted(rs) == rs

\* sorted(rs, key=lambda x: x['line_count'], reverse=True): a stable sort,
\* records of equal line count keep the order they have in rs
SortedByLineCountDesc(rs) == SortedStable(rs)

\* filename.endswith('.md'), over Names
EndsWithMd(name) == name \in {"a.md", "b.md", "c.md"}

MdFiles(S) == {f \in S : EndsWithMd(f)}

\* how open()/readlines() of a file ends, and len(lines) when it succeeds
FileStates ==
    {[read |-> "ok", lines |-> n] : n \in LineCounts}
        \cup {[read |-> e, lines |-> 0] :
                  e \in {"PermissionError", "UnicodeDecodeError"}}

\* os.listdir() returns the entries in arbitrary order
Orders(S) ==
    {s \in [1..Cardinality(S) -> S] : \A i, j \in DOMAIN s : s[i] = s[j] => i = j}

\* sorted(category_counts.items()): the keys present, by name
SortedCategoryNames == <<"long", "medium", "short", "very_long">>

---------------------------------------------------------------------------
(* State at process start *)

Fresh ==
    /\ pc = "listdir"
    /\ listing = <<>>
    /\ results = <<>>
    /\ category_counts = [c \in Categories |-> 0]
    /\ total_lines = 0
    /\ total_files = 0
    /\ stdout = <<>>
    /\ error = "none"
    /\ line_count = 0
    /\ category = "None"
    /\ priority = "NONE"

NoFile == <<Line("absent")>>

Init ==
    /\ Fresh
    /\ run = 1
    /\ report = NoFile
    /\ prevReport = NoFile
    /\ dirExists \in BOOLEAN
    /\ dirFiles \in {S \in SUBSET Names : Cardinality(S) <= MaxEntries}
    /\ ~dirExists => dirFiles = {}
    /\ content \in [MdFiles(dirFiles) -> FileStates]

\* one file, of any line count up to MaxLines
InitClassify ==
    /\ Fresh
    /\ run = 1
    /\ report = NoFile
    /\ prevReport = NoFile
    /\ dirExists = TRUE
    /\ dirFiles = {"a.md"}
    /\ content \in [{"a.md"} -> {[read |-> "ok", lines |-> n] : n \in 0..MaxLines}]

---------------------------------------------------------------------------
(* analyze_document_lengths *)

Raise(e) ==
    /\ error' = e
    /\ pc' = "crashed"

\* lines 32-41: the heading, then os.listdir(docs_dir)
ListDir ==
    /\ pc = "listdir"
    /\ stdout' = stdout \o <<Line("analysis_heading")>>
    /\ IF dirExists
       THEN /\ \E order \in Orders(dirFiles) : listing' = order
            /\ pc' = "scan"
            /\ UNCHANGED error
       ELSE /\ Raise("FileNotFoundError")
            /\ UNCHANGED listing
    /\ UNCHANGED <<run, dirExists, dirFiles, content, results, category_counts,
                   total_lines, total_files, report, prevReport, line_count,
                   category, priority>>

\* lines 41-82: one iteration of the loop over the listing
ScanEntry ==
    /\ pc = "scan"
    /\ listing # <<>>
    /\ listing' = Tail(listing)
    /\ LET filename == Head(listing)
           n == content[filename].lines
           cat == CategoryOf(n)
       IN  IF ~EndsWithMd(filename)
           THEN UNCHANGED <<pc, error, results, category_counts, total_lines,
                            total_files, stdout, line_count, category, priority>>
           ELSE /\ total_files' = total_files + 1
                /\ IF content[filename].read # "ok"
                   THEN /\ Raise(content[filename].read)
                        /\ UNCHANGED <<results, category_counts, total_lines,
                                       stdout, line_count, category, priority>>
                   ELSE /\ line_count' = n
                        /\ total_lines' = total_lines + n
                        /\ category' = cat
                        /\ category_counts' =
                               IF cat \in Categories
                               THEN [category_counts EXCEPT ![cat] = @ + 1]
                               ELSE category_counts
                        /\ priority' = PriorityOf(n)
                        /\ IF LookupFails(cat)
                           THEN /\ Raise("KeyError")
                                /\ UNCHANGED <<results, stdout>>
                           ELSE /\ results' = Append(results, MakeRecord(filename, n))
                                /\ stdout' = Append(stdout,
                                       Block("file", filename, n, 0,
                                             DisplayCategory(cat), PriorityOf(n),
                                             optimization_recommendations[cat]))
                                /\ UNCHANGED <<pc, error>>
    /\ UNCHANGED <<run, dirExists, dirFiles, content, report, prevReport>>

\* the distribution lines: one per category present, count and percentage
Distribution ==
    LET present == SelectSeq(SortedCategoryNames,
                             LAMBDA c : category_counts[c] > 0)
    IN  [i \in DOMAIN present |->
            Block("distribution", "", category_counts[present[i]],
                  Format1f(100 * category_counts[present[i]], total_files),
                  DisplayCategory(present[i]), "", "")]

\* lines 84-97: summary statistics and category distribution.  The average
\* is total_lines / total_files, after the two totals are printed.
PrintSummary ==
    /\ pc = "scan"
    /\ listing = <<>>
    /\ IF total_files = 0
       THEN /\ stdout' = stdout \o <<Line("summary_heading"),
                                     Number("total_files", total_files),
                                     Number("total_lines", total_lines)>>
            /\ Raise("ZeroDivisionError")
       ELSE /\ stdout' = stdout \o <<Line("summary_heading"),
                                     Number("total_files", total_files),
                                     Number("total_lines", total_lines),
                                     Number("average", Format1f(total_lines, total_files)),
                                     Line("distribution_heading")>>
                                \o Distribution
            /\ pc' = "candidates"
            /\ UNCHANGED error
    /\ UNCHANGED <<run, dirExists, dirFiles, content, listing, results,
                   category_counts, total_lines, total_files, report,
                   prevReport, line_count, category, priority>>

\* the priorities the candidate list keeps (line 100)
CandidatePrioritiesWithLow == {"HIGH", "MEDIUM", "LOW"}

CandidatePriorities == {"HIGH", "MEDIUM"}

DocLines(kind, rs) ==
    [i \in DOMAIN rs |->
        Block(kind, rs[i].filename, rs[i].line_count, 0, "", rs[i].priority, "")]

\* lines 99-106: the optimization candidates, then return results
PrintCandidates ==
    /\ pc = "candidates"
    /\ LET high_priority == Filter(results, CandidatePriorities)
       IN  stdout' = stdout
                \o <<Number("candidates_heading", Len(high_priority))>>
                \o DocLines("candidate", SortedByLineCountDesc(high_priority))
    /\ pc' = "suggest"
    /\ UNCHANGED <<run, dirExists, dirFiles, content, listing, results,
                   category_counts, total_lines, total_files, report,
                   prevReport, error, line_count, category, priority>>

---------------------------------------------------------------------------
(* suggest_optimization_strategies *)

\* one priority group: printed only when it is not empty
Group(kind, rs) ==
    IF rs = <<>> THEN <<>> ELSE <<Line(kind)>> \o DocLines("strategy_doc", rs)

\* lines 166-211
SuggestStrategies ==
    /\ pc = "suggest"
    /\ stdout' = stdout
          \o <<Line("strategy_heading")>>
          \o Group("high_priority", Filter(results, {"HIGH"}))
          \o Group("medium_priority", Filter(results, {"MEDIUM"}))
          \o Group("low_priority", Filter(results, {"LOW"}))
          \o <<Line("timeline")>>
    /\ pc' = "gen_open"
    /\ UNCHANGED <<run, dirExists, dirFiles, content, listing, results,
                   category_counts, total_lines, total_files, report,
                   prevReport, error, line_count, category, priority>>

---------------------------------------------------------------------------
(* generate_optimization_report.  report is the text the file holds once   *)
(* the with block has closed it: the block flushes what was written when   *)
(* it is left, by the end of the body or by an exception.                  *)

\* lines 233-244: the three bullets, by line count
StrategyBullets(n) ==
    IF n > 500
    THEN <<Block("bullet", "", 0, 0, "", "HIGH", "Document splitting into focused guides"),
           Block("bullet", "", 0, 0, "", "HIGH", "Content extraction to reference documents"),
           Block("bullet", "", 0, 0, "", "HIGH", "Enhanced navigation with detailed TOC")>>
    ELSE IF n > 400
    THEN <<Block("bullet", "", 0, 0, "", "MEDIUM", "Section extraction for major topics"),
           Block("bullet", "", 0, 0, "", "MEDIUM", "Content summarization with references"),
           Block("bullet", "", 0, 0, "", "MEDIUM", "Modular documentation approach")>>
    ELSE <<Block("bullet", "", 0, 0, "", "LOW", "Content density optimization"),
           Block("bullet", "", 0, 0, "", "LOW", "Navigation enhancement"),
           Block("bullet", "", 0, 0, "", "LOW", "Cross-reference improvement")>>

HasStrategyOnlyHighMedium(r) == r.priority \in {"HIGH", "MEDIUM"}

\* line 231
HasStrategy(r) == r.priority # "NONE"

\* lines 226-245: one per-document section
Section(r) ==
    <<Block("doc", r.filename, r.line_count, 0, DisplayCategory(r.category),
            r.priority, r.recommendation)>>
        \o (IF HasStrategy(r)
            THEN <<Line("optimization_strategy")>> \o StrategyBullets(r.line_count)
            ELSE <<>>)

RECURSIVE Sections(_)
Sections(rs) ==
    IF rs = <<>> THEN <<>> ELSE Section(rs[1]) \o Sections(Tail(rs))

\* lines 217-220: written before the average is computed
SummaryHead(rs) ==
    <<Line("title"), Line("summary_heading"), Number("total_files", Len(rs)),
      Number("total_lines", SumLines(rs))>>

\* lines 248-277
ReportTail ==
    <<Line("plan_heading"), Line("phase1"), Line("phase2"), Line("phase3"),
      Line("phase4"), Line("benefits"), Line("report_generated"),
      Line("performed_by")>>

\* line 216: open(output_file, 'w') creates or truncates the file
GenOpen ==
    /\ pc = "gen_open"
    /\ report' = <<>>
    /\ pc' = "gen_summary"
    /\ UNCHANGED <<run, dirExists, dirFiles, content, listing, results,
                   category_counts, total_lines, total_files, stdout,
                   prevReport, error, line_count, category, priority>>

\* lines 217-221: the average divides by len(results)
GenSummary ==
    /\ pc = "gen_summary"
    /\ IF Len(results) = 0
       THEN /\ report' = report \o SummaryHead(results)
            /\ Raise("ZeroDivisionError")
       ELSE /\ report' = report \o SummaryHead(results)
                  \o <<Number("average", Format1f(SumLines(results), Len(results)))>>
            /\ pc' = "gen_findings"
            /\ UNCHANGED error
    /\ UNCHANGED <<run, dirExists, dirFiles, content, listing, results,
                   category_counts, total_lines, total_files, stdout,
                   prevReport, line_count, category, priority>>

\* lines 224-245
GenFindings ==
    /\ pc = "gen_findings"
    /\ report' = report \o <<Line("findings_heading")>>
                        \o Sections(SortedByLineCountDesc(results))
    /\ pc' = "gen_tail"
    /\ UNCHANGED <<run, dirExists, dirFiles, content, listing, results,
                   category_counts, total_lines, total_files, stdout,
                   prevReport, error, line_count, category, priority>>

\* lines 248-279: the fixed text, the close, and the console notice
GenTail ==
    /\ pc = "gen_tail"
    /\ report' = report \o ReportTail
    /\ stdout' = Append(stdout, Line("report_generated"))
    /\ pc' = "gen_returned"
    /\ UNCHANGED <<run, dirExists, dirFiles, content, listing, results,
                   category_counts, total_lines, total_files,
                   prevReport, error, line_count, category, priority>>

---------------------------------------------------------------------------
(* __main__ *)

\* line 286
MainFinish ==
    /\ pc = "gen_returned"
    /\ stdout' = Append(stdout, Line("analysis_complete"))
    /\ pc' = "done"
    /\ UNCHANGED <<run, dirExists, dirFiles, content, listing, results,
                   category_counts, total_lines, total_files, report,
                   prevReport, error, line_count, category, priority>>

\* the tool is run again over the same directory: a new process, the
\* output file of the first run still in place
Rerun ==
    /\ pc \in {"done", "crashed"}
    /\ run = 1
    /\ run' = 2
    /\ prevReport' = report
    /\ pc' = "listdir"
    /\ listing' = <<>>
    /\ results' = <<>>
    /\ category_counts' = [c \in Categories |-> 0]
    /\ total_lines' = 0
    /\ total_files' = 0
    /\ stdout' = <<>>
    /\ error' = "none"
    /\ line_count' = 0
    /\ category' = "None"
    /\ priority' = "NONE"
    /\ UNCHANGED <<dirExists, dirFiles, content, report>>

Next ==
    \/ ListDir
    \/ ScanEntry
    \/ PrintSummary
    \/ PrintCandidates
    \/ SuggestStrategies
    \/ GenOpen
    \/ GenSummary
    \/ GenFindings
    \/ GenTail
    \/ MainFinish
    \/ Rerun

Spec == Init /\ [][Next]_vars

\* the classification of one file, for every line count up to MaxLines
SpecClassify == InitClassify /\ [][Next]_vars

---------------------------------------------------------------------------
(* generate_optimization_report called on its own with a list of records *)

\* the lists a caller can pass: records as analyze_document_lengths builds
\* them, in any order, and the empty list
RecordLists ==
    UNION {{[i \in DOMAIN order |-> MakeRecord(order[i], counts[i])] :
                counts \in [DOMAIN order -> LineCounts \ {0}]} :
           order \in UNION {Orders(S) : S \in SUBSET MdFiles(Names)}}

InitReport ==
    /\ pc = "gen_open"
    /\ run = 1
    /\ report = NoFile
    /\ prevReport = NoFile
    /\ dirExists = TRUE
    /\ dirFiles = {}
    /\ content = <<>>
    /\ listing = <<>>
    /\ results \in RecordLists
    /\ category_counts = [c \in Categories |-> 0]
    /\ total_lines = 0
    /\ total_files = 0
    /\ stdout = <<>>
    /\ error = "none"
    /\ line_count = 0
    /\ category = "None"
    /\ priority = "NONE"

NextReport ==
    \/ GenOpen
    \/ GenSummary
    \/ GenFindings
    \/ GenTail

SpecReport == InitReport /\ [][NextReport]_vars

---------------------------------------------------------------------------
(* Properties *)

\* analyze_document_lengths has returned its list
Returned ==
    pc \in {"suggest", "gen_open", "gen_summary", "gen_findings", "gen_tail",
            "gen_returned", "done"}

\* the single file of the directory has gone through lines 46-75
Classified == total_files = 1 /\ error \notin {"PermissionError", "UnicodeDecodeError"}

\* the candidate lines printed, in the order printed
CandidateLines == SelectSeq(stdout, LAMBDA b : b.kind = "candidate")

\* the report is written through its last line
IsComplete(rep) ==
    /\ Len(rep) >= Len(SummaryHead(<<>>)) + 2 + Len(ReportTail)
    /\ SubSeq(rep, 1, 2) = <<Line("title"), Line("summary_heading")>>
    /\ rep[3].kind = "total_files"
    /\ rep[4].kind = "total_lines"
    /\ rep[5].kind = "average"
    /\ rep[6] = Line("findings_heading")
    /\ SubSeq(rep, Len(rep) - Len(ReportTail) + 1, Len(rep)) = ReportTail

\* the directory of three files of 50, 350 and 600 lines
Dir50_350_600 ==
    /\ Cardinality(dirFiles) = 3
    /\ MdFiles(dirFiles) = dirFiles
    /\ \A f \in dirFiles : content[f].read = "ok"
    /\ {content[f].lines : f \in dirFiles} = {50, 350, 600}

FileOf(n) == CHOOSE f \in dirFiles : content[f].lines = n

Filenames(blocks) == [i \in DOMAIN blocks |-> blocks[i].name]

\* C1: the category of a file of n lines is one of the four labels and is
\* fixed by n: up to 100 (0 included) short, 101..300 medium, 301..500 long,
\* 501 and more very_long.
C1_CategoryByRange ==
    Classified =>
        /\ category \in {"short", "medium", "long", "very_long"}
        /\ line_count <= 100 => category = "short"
        /\ (101 <= line_count /\ line_count <= 300) => category = "medium"
        /\ (301 <= line_count /\ line_count <= 500) => category = "long"
        /\ line_count >= 501 => category = "very_long"

\* C2: the priority of a file of n lines is HIGH when n > 500, MEDIUM when
\* 400 < n <= 500, LOW when 300 < n <= 400 and NONE when n <= 300, in the
\* loop and in the record it appends.
C2_PriorityByThreshold ==
    Classified =>
        /\ line_count > 500 => priority = "HIGH"
        /\ (400 < line_count /\ line_count <= 500) => priority = "MEDIUM"
        /\ (300 < line_count /\ line_count <= 400) => priority = "LOW"
        /\ line_count <= 300 => priority = "NONE"
        /\ \A i \in DOMAIN results :
              /\ results[i].line_count = line_count
              /\ results[i].priority = priority

C2_Witness ==
    /\ Classified
    /\ line_count = 500
    /\ category = "long"
    /\ Len(results) = 1
    /\ results[1].priority = "MEDIUM"

\* C3: a scan that finds no matching file (no directory, or no .md entry)
\* does not fail: no exception, no division by total_files = 0, and the
\* list returned is empty.
C3_ZeroFilesNoFailure ==
    MdFiles(dirFiles) = {} =>
        /\ error = "none"
        /\ Returned => results = <<>>

\* C4: generate_optimization_report on the empty list writes the whole
\* report, with totals of zero, and raises nothing.
C4_EmptyListReportWritten ==
    results = <<>> =>
        /\ error = "none"
        /\ pc = "gen_returned" =>
              /\ IsComplete(report)
              /\ report[3] = Number("total_files", 0)
              /\ report[4] = Number("total_lines", 0)

\* C5: once generate_optimization_report has ended, by returning or by an
\* exception, the output path holds no newly written file or a complete
\* report, never a part of one.
C5_NoPartialReport ==
    pc \in {"gen_returned", "crashed"} =>
        report = NoFile \/ IsComplete(report)

\* C6: a file that cannot be read is skipped and the scan goes on: the run
\* is not ended by the read error, and the list returned has exactly one
\* record for every other matching file.
C6_ReadFailureSkipped ==
    /\ error \notin {"PermissionError", "UnicodeDecodeError"}
    /\ Returned =>
          /\ {results[i].filename : i \in DOMAIN results}
                = {f \in MdFiles(dirFiles) : content[f].read = "ok"}
          /\ Len(results) = Cardinality({f \in MdFiles(dirFiles) : content[f].read = "ok"})

\* C7: the candidate list printed holds exactly the records of priority HIGH
\* or MEDIUM, each once, in non-increasing order of line count, whatever the
\* order of enumeration.
C7_CandidateList ==
    Returned =>
        LET c == CandidateLines
            wanted == {i \in DOMAIN results :
                          results[i].priority \in {"HIGH", "MEDIUM"}}
        IN  /\ Len(c) = Cardinality(wanted)
            /\ \A i \in wanted : \E k \in DOMAIN c :
                  /\ c[k].name = results[i].filename
                  /\ c[k].num = results[i].line_count
                  /\ c[k].prio = results[i].priority
            /\ \A k \in DOMAIN c : c[k].prio \in {"HIGH", "MEDIUM"}
            /\ \A k, l \in DOMAIN c : k < l => c[k].num >= c[l].num

\* enumerated MEDIUM, LOW, HIGH: the list printed is the HIGH record, then
\* the MEDIUM one
C7_Witness ==
    /\ Returned
    /\ Len(results) = 3
    /\ results[1].priority = "MEDIUM"
    /\ results[2].priority = "LOW"
    /\ results[3].priority = "HIGH"
    /\ Filenames(CandidateLines) = <<results[3].filename, results[1].filename>>

\* C8 as stated: for files of 50, 350 and 600 lines the candidate list is
\* the 600-line file, then the 350-line file, and not the 50-line file.
C8_Lists600Then350 ==
    (Dir50_350_600 /\ Returned) =>
        Filenames(CandidateLines) = <<FileOf(600), FileOf(350)>>

\* C8 amended: for files of 50, 350 and 600 lines the candidate list is the
\* 600-line file alone; the 350-line file (priority LOW) and the 50-line
\* file (priority NONE) are not listed.
C8_ListsOnly600 ==
    (Dir50_350_600 /\ Returned) =>
        /\ Filenames(CandidateLines) = <<FileOf(600)>>
        /\ \A k \in DOMAIN CandidateLines :
              CandidateLines[k].name \notin {FileOf(350), FileOf(50)}

C8_Witness ==
    /\ Dir50_350_600
    /\ pc = "suggest"
    /\ Len(results) = 3
    /\ results[1].line_count = 350
    /\ Len(CandidateLines) = 1

\* the band of a line count: the tier of bullets its section is to carry
Band(n) ==
    IF n > 500 THEN "HIGH"
    ELSE IF 401 <= n /\ n <= 500 THEN "MEDIUM"
    ELSE IF 301 <= n /\ n <= 400 THEN "LOW"
    ELSE "NONE"

\* C9: in the report the per-document sections, one per record, are in
\* non-increasing order of line count; a section has a strategy list iff
\* its priority is not NONE, and the bullets are those of its priority band.
C9_ReportSections ==
    pc \in {"gen_tail", "gen_returned", "done"} =>
        LET docs == {i \in DOMAIN report : report[i].kind = "doc"}
            lists == {i \in DOMAIN report : report[i].kind = "optimization_strategy"}
            bullets == {i \in DOMAIN report : report[i].kind = "bullet"}
        IN  /\ Cardinality(docs) = Len(results)
            /\ \A r \in DOMAIN results : \E i \in docs :
                  /\ report[i].name = results[r].filename
                  /\ report[i].num = results[r].line_count
                  /\ report[i].prio = results[r].priority
            /\ \A i, j \in docs : i < j => report[i].num >= report[j].num
            /\ \A i \in docs : report[i].prio # "NONE" <=> i + 1 \in lists
            /\ \A i \in lists : i - 1 \in docs
            /\ \A i \in docs : i + 1 \in lists =>
                  /\ {i + 2, i + 3, i + 4} \subseteq bullets
                  /\ \A k \in {i + 2, i + 3, i + 4} :
                        /\ report[k].prio = Band(report[i].num)
                        /\ report[k].prio = report[i].prio
            /\ Cardinality(bullets) = 3 * Cardinality(lists)

\* files of 50, 350 and 600 lines enumerated 50 first: sections 600, 350,
\* 50, a strategy list in the first two only
C9_Witness ==
    /\ Dir50_350_600
    /\ pc = "done"
    /\ results[1].line_count = 50
    /\ Filenames(SelectSeq(report, LAMBDA b : b.kind = "doc"))
          = <<FileOf(600), FileOf(350), FileOf(50)>>
    /\ Len(SelectSeq(report, LAMBDA b : b.kind = "optimization_strategy")) = 2
    /\ report[Len(report) - Len(ReportTail)].kind = "doc"

\* C10: a second run over the unchanged directory writes the report the
\* first run wrote, whatever order either run enumerates the files in.
C10_SameReport ==
    (run = 2 /\ pc = "done") => report = prevReport

====
